---- MODULE Spec2Model ----
(***************************************************************************)
(* Model of inverse_covariance/two_way_standard_scaler.py:                 *)
(*   two_way_standardize   the successive row/column normalisation         *)
(*   TwoWayStandardScaler  the fit / transform / inverse_transform object  *)
(*                                                                         *)
(* Numbers.  A float is modelled in fixed point: the integer n stands for  *)
(* n / Unit.  The convergence error err_norm and the threshold tol are     *)
(* kept in units of 1 / (Unit * Unit), so that with Unit = 1000 the        *)
(* default tol = 1e-6 is the integer 1.  Division rounds to nearest and    *)
(* the square root is the integer square root.                             *)
(*                                                                         *)
(* Matrices are sequences of rows; a numpy vector is a sequence.  Python's *)
(* None, where a matrix or a vector is expected, is the empty sequence.    *)
(* est.attrs is the set of fitted attributes the object has; an attribute  *)
(* outside it does not exist yet (its field holds a placeholder).          *)
(***************************************************************************)
EXTENDS Integers, Sequences, FiniteSets, TLC

VARIABLES
    est,      \* the TwoWayStandardScaler object: constructor options and fitted attributes
    op,       \* the operation of the last call ("none" before any call)
    arg,      \* the arguments of the last call, with the caller's matrix as it was handed in
    X,        \* the caller's matrix object as it is after the last call
    outcome,  \* "ok" or the exception class the last call raised
    ret,      \* the matrix the last call returned, None if it raised or returned self
    warns,    \* number of warnings.warn calls made by the last call
    n_iter    \* executions of the normalisation loop body in the last call

vars == <<est, op, arg, X, outcome, ret, warns, n_iter>>

----------------------------------------------------------------------------
(* Bounds of the model *)

MaxRows == 2
MaxCols == 2
MaxVal == 1
MaxIterBound == 2

(* Program constants *)

Unit == 1000
DefaultMaxIter == 50
DefaultTol == 1
\* np.inf, above every err_norm and every tol of the model
Inf == 2147483647

None == << >>

----------------------------------------------------------------------------
(* Fixed-point arithmetic *)

RoundDiv(a, b) == (2 * a + b) \div (2 * b)

RECURSIVE SqrtSearch(_, _, _)
SqrtSearch(n, lo, hi) ==
    IF hi - lo <= 1 THEN lo
    ELSE LET mid == (lo + hi) \div 2
         IN  IF mid * mid <= n THEN SqrtSearch(n, mid, hi) ELSE SqrtSearch(n, lo, mid)

\* floor of the square root of n >= 0 (46340 is the largest root of a 32-bit integer)
ISqrt(n) == IF n <= 0 THEN 0 ELSE SqrtSearch(n, 0, IF n >= 46340 THEN 46341 ELSE n + 1)

\* f itself, as an explicit function: TLC then computes the values of a
\* function constructor once instead of at every application
Eager(f) == f @@ << >>

RECURSIVE SumSeq(_)
SumSeq(s) == IF s = <<>> THEN 0 ELSE Head(s) + SumSeq(Tail(s))

----------------------------------------------------------------------------
(* numpy arrays *)

NRows(M) == Len(M)
NCols(M) == Len(M[1])

\* M.T
Transpose(M) == Eager([j \in 1..NCols(M) |-> Eager([i \in 1..NRows(M) |-> M[i][j]])])

\* np.mean(v), np.var(v) and np.std(v) of one vector
Mean(v) == RoundDiv(SumSeq(v), Len(v))
SumSqDev(v) == LET m == Mean(v) IN SumSeq([k \in 1..Len(v) |-> (v[k] - m) * (v[k] - m)])
Std(v) == ISqrt(RoundDiv(SumSqDev(v), Len(v)))

\* np.linalg.norm(A - B, "fro")
FroDiff(A, B) ==
    ISqrt(SumSeq([i \in 1..NRows(A) |->
                    SumSeq([j \in 1..NCols(A) |-> (A[i][j] - B[i][j]) * (A[i][j] - B[i][j])])]))

\* the caller's inputs: dense float matrices of every shape in the bounds,
\* and scipy.sparse matrices
Shapes == (1..MaxRows) \X (1..MaxCols)
MatricesOf(r, c) == [1..r -> [1..c -> {v * Unit : v \in 0..MaxVal}]]
Matrices == UNION {MatricesOf(s[1], s[2]) : s \in Shapes}
Zeros(r, c) == [i \in 1..r |-> [j \in 1..c |-> 0]]

DenseInputs == {[sparse |-> FALSE, data |-> M] : M \in Matrices}
\* (a sparse matrix is refused before its shape or its entries are read)
SparseInputs == {[sparse |-> TRUE, data |-> Zeros(1, 1)]}
Inputs == DenseInputs \cup SparseInputs

----------------------------------------------------------------------------
(* sklearn collaborators *)

\* sklearn.utils.check_array(X, accept_sparse=None, copy=..., dtype=FLOAT_DTYPES):
\* a sparse matrix is refused with TypeError, a dense float matrix comes back
\* (as a copy or as the same object; nothing is written to it either way).
\* sparse tells whether what comes back is sparse: it never is.
check_array(Xin) ==
    IF Xin.sparse THEN [err |-> "TypeError", array |-> None, sparse |-> FALSE]
    ELSE [err |-> "ok", array |-> Xin.data, sparse |-> FALSE]

\* sklearn.preprocessing._handle_zeros_in_scale: scale[scale == 0.0] = 1.0
handle_zeros_in_scale(s) == IF s = 0 THEN Unit ELSE s

\* sklearn.preprocessing.scale(M, axis=1, with_mean=True, with_std=with_std):
\* every row is centred and, with_std, divided by its standard deviation.
scale_row(v, with_std) ==
    LET m == Mean(v)
        s == handle_zeros_in_scale(Std(v))
    IN  Eager([k \in 1..Len(v) |->
                 IF with_std THEN RoundDiv((v[k] - m) * Unit, s) ELSE v[k] - m])

scale(M, with_std) == Eager([i \in 1..NRows(M) |-> scale_row(M[i], with_std)])

----------------------------------------------------------------------------
(* two_way_standardize *)

\* err_norm of one iteration, in units of 1 / (Unit * Unit)
err_norm_of(oldXrow, Xrow_polish, oldXcol, Xcol_polish, n_rows, n_cols) ==
    (FroDiff(oldXrow, Xrow_polish) * Unit) \div (2 * n_rows * n_cols)
  + (FroDiff(oldXcol, Xcol_polish) * Unit) \div (2 * n_rows * n_cols)

\* the guard of the while loop
loop_guard(n, max_iter, err_norm, tol) == n <= max_iter /\ err_norm > tol

RECURSIVE normalization_loop(_, _, _, _, _, _, _)
normalization_loop(Xrow_polish, Xcol_polish, n, err_norm, with_std, max_iter, tol) ==
    IF ~loop_guard(n, max_iter, err_norm, tol)
    THEN [Xrow_polish |-> Xrow_polish, n_iter |-> n]
    ELSE LET newXcol == scale(Transpose(Xrow_polish), with_std)
             newXrow == scale(Transpose(newXcol), with_std)
             err == err_norm_of(Xrow_polish, newXrow, Xcol_polish, newXcol,
                                NCols(Xrow_polish), NRows(Xrow_polish))
         IN  normalization_loop(newXrow, newXcol, n + 1, err, with_std, max_iter, tol)

\* with_mean and copy are accepted and have no effect on the result: scale is
\* always called with with_mean=True and the input is copied before the loop.
\* `raise NotImplemented(...)` calls the NotImplemented constant: a TypeError.
two_way_standardize(Xin, with_mean, with_std, copy, max_iter, tol) ==
    LET chk == check_array(Xin)
    IN  IF chk.err # "ok"
        THEN [err |-> chk.err, ret |-> None, n_iter |-> 0]
        ELSE IF chk.sparse
        THEN [err |-> "TypeError", ret |-> None, n_iter |-> 0]
        ELSE LET r == normalization_loop(Transpose(chk.array), chk.array, 0, Inf,
                                         with_std, max_iter, tol)
             IN  [err |-> "ok", ret |-> Transpose(r.Xrow_polish), n_iter |-> r.n_iter]

\* The arguments the model calls two_way_standardize with, and the results,
\* computed once per argument list.
MaxIters == (1..MaxIterBound) \cup {DefaultMaxIter}
Tols == {DefaultTol, Unit * Unit}
ProcArgs == Inputs \X BOOLEAN \X BOOLEAN \X BOOLEAN \X MaxIters \X Tols

two_way_standardize_results ==
    Eager([a \in ProcArgs |-> two_way_standardize(a[1], a[2], a[3], a[4], a[5], a[6])])

----------------------------------------------------------------------------
(* The estimator *)

\* TwoWayStandardScaler.__init__
NewScaler(copy, with_mean, with_std) ==
    [copy |-> copy, with_mean |-> with_mean, with_std |-> with_std, attrs |-> {},
     col_mean_ |-> None, col_var_ |-> None, n_rows_seen_ |-> 0,
     row_mean_ |-> None, row_var_ |-> None, n_cols_seen_ |-> 0,
     row_scale_ |-> None, col_scale_ |-> None]

\* numpy broadcasting of a vector along an axis of length n, and the element used
Broadcastable(vec, n) == Len(vec) = n \/ Len(vec) = 1
Bc(vec, k) == IF Len(vec) = 1 THEN vec[1] ELSE vec[k]

Column(A, j) == Eager([i \in 1..NRows(A) |-> A[i][j]])

\* sklearn.utils.extmath._incremental_mean_and_var(A, last_mean, last_variance,
\* last_sample_count): the statistics of the columns of A folded into the running
\* ones.  The variance is None when last_variance is None.
incremental_mean_and_var(A, last_mean, last_variance, last_sample_count) ==
    LET new_sample_count == NRows(A)
        updated_sample_count == last_sample_count + new_sample_count
        last_sum(j) == Bc(last_mean, j) * last_sample_count
        new_sum(j) == SumSeq(Column(A, j))
        new_unnormalized_variance(j) == SumSqDev(Column(A, j))
        cross(j) == last_sum(j) * new_sample_count - new_sum(j) * last_sample_count
        updated_unnormalized_variance(j) ==
            IF last_sample_count = 0 THEN new_unnormalized_variance(j)
            ELSE Bc(last_variance, j) * Unit * last_sample_count
                 + new_unnormalized_variance(j)
                 + (cross(j) * cross(j))
                     \div (last_sample_count * new_sample_count * updated_sample_count)
    IN  [mean |-> Eager([j \in 1..NCols(A) |->
                            RoundDiv(last_sum(j) + new_sum(j), updated_sample_count)]),
         var |-> IF last_variance = None THEN None
                 ELSE Eager([j \in 1..NCols(A) |->
                                RoundDiv(updated_unnormalized_variance(j),
                                         updated_sample_count * Unit)]),
         count |-> updated_sample_count]

\* _handle_zeros_in_scale(np.sqrt(var))
scale_of(var) == Eager([j \in 1..Len(var) |-> handle_zeros_in_scale(ISqrt(var[j] * Unit))])

FittedAttrs == {"col_mean_", "col_var_", "n_rows_seen_", "row_mean_", "row_var_",
                "n_cols_seen_", "row_scale_", "col_scale_"}

\* Faulty variant: the fitted check is skipped.
check_is_fitted_skipped(self) == TRUE

\* sklearn.utils.validation.check_is_fitted(self, "row_scale_")
check_is_fitted(self) == "row_scale_" \in self.attrs

\* Faulty variant: the running statistics are not reset, a second fit of a
\* matrix of the same shape accumulates onto the first.
fit_accumulating(self, Xin) ==
    LET chk == check_array(Xin)
        A == chk.array
        keep == /\ "col_mean_" \in self.attrs
                /\ Len(self.col_mean_) = NCols(A)
                /\ Len(self.row_mean_) = NRows(A)
        cols == IF keep
                THEN incremental_mean_and_var(A, self.col_mean_, self.col_var_,
                                              self.n_rows_seen_)
                ELSE incremental_mean_and_var(A, <<0>>,
                                              IF self.with_std THEN <<0>> ELSE None, 0)
        rows == IF keep
                THEN incremental_mean_and_var(Transpose(A), self.row_mean_, self.row_var_,
                                              self.n_cols_seen_)
                ELSE incremental_mean_and_var(Transpose(A), <<0>>,
                                              IF self.with_std THEN <<0>> ELSE None, 0)
    IN  IF chk.err # "ok"
        THEN [err |-> chk.err, self |-> self]
        ELSE [err |-> "ok",
              self |-> [self EXCEPT
                  !.attrs = FittedAttrs,
                  !.col_mean_ = cols.mean, !.col_var_ = cols.var, !.n_rows_seen_ = cols.count,
                  !.row_mean_ = rows.mean, !.row_var_ = rows.var, !.n_cols_seen_ = rows.count,
                  !.row_scale_ = IF self.with_std THEN scale_of(rows.var) ELSE None,
                  !.col_scale_ = IF self.with_std THEN scale_of(cols.var) ELSE None]]

\* Faulty variant: the statistics are reset before the input is validated.
fit_reset_first(self, Xin) ==
    LET chk == check_array(Xin)
        A == chk.array
        cols == incremental_mean_and_var(A, <<0>>, IF self.with_std THEN <<0>> ELSE None, 0)
        rows == incremental_mean_and_var(Transpose(A), <<0>>,
                                         IF self.with_std THEN <<0>> ELSE None, 0)
    IN  IF chk.err # "ok"
        THEN [err |-> chk.err,
              self |-> [self EXCEPT !.attrs = self.attrs \cup {"col_mean_", "n_rows_seen_"},
                                    !.col_mean_ = <<0>>, !.n_rows_seen_ = 0]]
        ELSE [err |-> "ok",
              self |-> [self EXCEPT
                  !.attrs = FittedAttrs,
                  !.col_mean_ = cols.mean, !.col_var_ = cols.var, !.n_rows_seen_ = cols.count,
                  !.row_mean_ = rows.mean, !.row_var_ = rows.var, !.n_cols_seen_ = rows.count,
                  !.row_scale_ = IF self.with_std THEN scale_of(rows.var) ELSE None,
                  !.col_scale_ = IF self.with_std THEN scale_of(cols.var) ELSE None]]

\* TwoWayStandardScaler.fit: the object after the call and the exception raised
\* (`raise NotImplemented(...)` is a TypeError, as in two_way_standardize)
fit(self, Xin) ==
    LET chk == check_array(Xin)
        A == chk.array
        cols == incremental_mean_and_var(A, <<0>>, IF self.with_std THEN <<0>> ELSE None, 0)
        rows == incremental_mean_and_var(Transpose(A), <<0>>,
                                         IF self.with_std THEN <<0>> ELSE None, 0)
    IN  IF chk.err # "ok"
        THEN [err |-> chk.err, self |-> self]
        ELSE IF chk.sparse
        THEN [err |-> "TypeError", self |-> self]
        ELSE [err |-> "ok",
              self |-> [self EXCEPT
                  !.attrs = FittedAttrs,
                  !.col_mean_ = cols.mean, !.col_var_ = cols.var, !.n_rows_seen_ = cols.count,
                  !.row_mean_ = rows.mean, !.row_var_ = rows.var, !.n_cols_seen_ = rows.count,
                  !.row_scale_ = IF self.with_std THEN scale_of(rows.var) ELSE None,
                  !.col_scale_ = IF self.with_std THEN scale_of(cols.var) ELSE None]]

\* Faulty variant: transform standardizes the columns with the fitted
\* statistics, as sklearn's StandardScaler does.
transform_with_fitted(self, Xin, copy) ==
    LET chk == check_array(Xin)
        A == chk.array
        sc(j) == IF self.col_scale_ = None THEN Unit ELSE Bc(self.col_scale_, j)
    IN  IF ~check_is_fitted(self)
        THEN [err |-> "NotFittedError", ret |-> None, X |-> Xin.data, warns |-> 0, n_iter |-> 0]
        ELSE IF chk.err # "ok"
        THEN [err |-> chk.err, ret |-> None, X |-> Xin.data, warns |-> 0, n_iter |-> 0]
        ELSE IF ~Broadcastable(self.col_mean_, NCols(A))
        THEN [err |-> "ValueError", ret |-> None, X |-> Xin.data, warns |-> 0, n_iter |-> 0]
        ELSE [err |-> "ok",
              ret |-> Eager([i \in 1..NRows(A) |-> Eager([j \in 1..NCols(A) |->
                          RoundDiv((A[i][j] - Bc(self.col_mean_, j)) * Unit, sc(j))])]),
              X |-> Xin.data, warns |-> 0, n_iter |-> 0]

\* TwoWayStandardScaler.transform: X is the caller's matrix after the call
transform(self, Xin, copy) ==
    LET chk == check_array(Xin)
        r == two_way_standardize_results[<<[sparse |-> FALSE, data |-> chk.array],
                                           TRUE, TRUE, TRUE, DefaultMaxIter, DefaultTol>>]
    IN  IF ~check_is_fitted(self)
        THEN [err |-> "NotFittedError", ret |-> None, X |-> Xin.data, warns |-> 0, n_iter |-> 0]
        ELSE IF chk.err # "ok"
        THEN [err |-> chk.err, ret |-> None, X |-> Xin.data, warns |-> 0, n_iter |-> 0]
        ELSE IF chk.sparse
        THEN [err |-> "NotImplementedError", ret |-> None, X |-> Xin.data,
              warns |-> 0, n_iter |-> 0]
        ELSE [err |-> r.err, ret |-> r.ret, X |-> Xin.data, warns |-> 0, n_iter |-> r.n_iter]

\* One in-place statement of inverse_transform, X *= vec or X += vec, guarded by
\* enabled (self.with_std or self.with_mean).  byRow: the statement runs on
\* the transposed view, so vec is indexed by the row of X; otherwise by the column.
\* A vector that does not broadcast raises ValueError and leaves the array as it is.
in_place(st, enabled, vec, byRow, times) ==
    LET A == st.data
        n == IF byRow THEN NRows(A) ELSE NCols(A)
        e(i, j) == Bc(vec, IF byRow THEN i ELSE j)
    IN  IF st.err # "ok" \/ ~enabled THEN st
        ELSE IF ~Broadcastable(vec, n) THEN [err |-> "ValueError", data |-> A]
        ELSE [err |-> "ok",
              data |-> Eager([i \in 1..NRows(A) |-> Eager([j \in 1..NCols(A) |->
                          IF times THEN RoundDiv(A[i][j] * e(i, j), Unit)
                          ELSE A[i][j] + e(i, j)])])]

\* Faulty variant: the warning is issued after the arithmetic, so a call that
\* raises on a shape mismatch has not warned.
inverse_transform_warn_late(self, Xin, copy) ==
    LET s0 == [err |-> "ok", data |-> Xin.data]
        s1 == in_place(s0, self.with_std, self.row_scale_, TRUE, TRUE)
        s2 == in_place(s1, self.with_mean, self.row_mean_, TRUE, FALSE)
        s3 == in_place(s2, self.with_std, self.col_scale_, FALSE, TRUE)
        s4 == in_place(s3, self.with_mean, self.col_mean_, FALSE, FALSE)
    IN  IF ~check_is_fitted(self)
        THEN [err |-> "NotFittedError", ret |-> None, X |-> Xin.data, warns |-> 0]
        ELSE IF Xin.sparse
        THEN [err |-> "NotImplementedError", ret |-> None, X |-> Xin.data, warns |-> 0]
        ELSE [err |-> s4.err,
              ret |-> IF s4.err = "ok" THEN s4.data ELSE None,
              X |-> IF copy THEN Xin.data ELSE s4.data,
              warns |-> IF s4.err = "ok" THEN 1 ELSE 0]

\* TwoWayStandardScaler.inverse_transform.  The array worked on is the caller's
\* own unless copy, so what was written before an exception stays written.
inverse_transform(self, Xin, copy) ==
    LET s0 == [err |-> "ok", data |-> Xin.data]
        s1 == in_place(s0, self.with_std, self.row_scale_, TRUE, TRUE)
        s2 == in_place(s1, self.with_mean, self.row_mean_, TRUE, FALSE)
        s3 == in_place(s2, self.with_std, self.col_scale_, FALSE, TRUE)
        s4 == in_place(s3, self.with_mean, self.col_mean_, FALSE, FALSE)
    IN  IF ~check_is_fitted(self)
        THEN [err |-> "NotFittedError", ret |-> None, X |-> Xin.data, warns |-> 0]
        ELSE IF Xin.sparse
        THEN [err |-> "NotImplementedError", ret |-> None, X |-> Xin.data, warns |-> 0]
        ELSE [err |-> s4.err,
              ret |-> IF s4.err = "ok" THEN s4.data ELSE None,
              X |-> IF copy THEN Xin.data ELSE s4.data,
              warns |-> 1]

----------------------------------------------------------------------------
(* Calls of the free function *)

CallTwoWayStandardize(Xin, with_mean, with_std, copy, max_iter, tol) ==
    LET r == two_way_standardize_results[<<Xin, with_mean, with_std, copy, max_iter, tol>>]
    IN  /\ op' = "two_way_standardize"
        /\ arg' = [X |-> Xin, with_mean |-> with_mean, with_std |-> with_std,
                   copy |-> copy, max_iter |-> max_iter, tol |-> tol]
        /\ X' = Xin.data
        /\ outcome' = r.err
        /\ ret' = r.ret
        /\ warns' = 0
        /\ n_iter' = r.n_iter
        /\ UNCHANGED est

Fit(Xin) ==
    LET r == fit(est, Xin)
    IN  /\ op' = "fit"
        /\ arg' = [X |-> Xin, with_mean |-> est.with_mean, with_std |-> est.with_std,
                   copy |-> est.copy, max_iter |-> DefaultMaxIter, tol |-> DefaultTol]
        /\ est' = r.self
        /\ X' = Xin.data
        /\ outcome' = r.err
        /\ ret' = None
        /\ warns' = 0
        /\ n_iter' = 0

Transform(Xin, copy) ==
    LET r == transform(est, Xin, copy)
    IN  /\ op' = "transform"
        /\ arg' = [X |-> Xin, with_mean |-> est.with_mean, with_std |-> est.with_std,
                   copy |-> copy, max_iter |-> DefaultMaxIter, tol |-> DefaultTol]
        /\ X' = r.X
        /\ outcome' = r.err
        /\ ret' = r.ret
        /\ warns' = r.warns
        /\ n_iter' = r.n_iter
        /\ UNCHANGED est

InverseTransform(Xin, copy) ==
    LET r == inverse_transform(est, Xin, copy)
    IN  /\ op' = "inverse_transform"
        /\ arg' = [X |-> Xin, with_mean |-> est.with_mean, with_std |-> est.with_std,
                   copy |-> copy, max_iter |-> DefaultMaxIter, tol |-> DefaultTol]
        /\ X' = r.X
        /\ outcome' = r.err
        /\ ret' = r.ret
        /\ warns' = r.warns
        /\ n_iter' = 0
        /\ UNCHANGED est

NoCall == [X |-> [sparse |-> FALSE, data |-> None], with_mean |-> TRUE, with_std |-> TRUE,
           copy |-> TRUE, max_iter |-> DefaultMaxIter, tol |-> DefaultTol]

InitProc ==
    /\ est = NewScaler(TRUE, TRUE, TRUE)
    /\ op = "none"
    /\ arg = NoCall
    /\ X = None
    /\ outcome = "ok"
    /\ ret = None
    /\ warns = 0
    /\ n_iter = 0

NextProc ==
    \E Xin \in Inputs, with_mean \in BOOLEAN, with_std \in BOOLEAN, copy \in BOOLEAN,
       max_iter \in MaxIters, tol \in Tols :
        CallTwoWayStandardize(Xin, with_mean, with_std, copy, max_iter, tol)

SpecProc == InitProc /\ [][NextProc]_vars

\* the estimator: any constructor options, then any sequence of calls
Init ==
    /\ \E copy \in BOOLEAN, with_mean \in BOOLEAN, with_std \in BOOLEAN :
            est = NewScaler(copy, with_mean, with_std)
    /\ op = "none"
    /\ arg = NoCall
    /\ X = None
    /\ outcome = "ok"
    /\ ret = None
    /\ warns = 0
    /\ n_iter = 0

Next ==
    \/ \E Xin \in Inputs : Fit(Xin)
    \/ \E Xin \in Inputs, copy \in BOOLEAN : Transform(Xin, copy)
    \/ \E Xin \in Inputs, copy \in BOOLEAN : InverseTransform(Xin, copy)

Spec == Init /\ [][Next]_vars

----------------------------------------------------------------------------
(* Properties *)

Fitted(e) == "row_scale_" \in e.attrs
Fresh(e) == NewScaler(e.copy, e.with_mean, e.with_std)
VarianceOf(v) == RoundDiv(SumSqDev(v), Len(v) * Unit)

\* C1: on an estimator that no fit has completed on, transform and
\* inverse_transform raise NotFittedError for every input and return no matrix.
C1_UnfittedRaisesNotFitted ==
    (op \in {"transform", "inverse_transform"} /\ ~Fitted(est))
        => (outcome = "NotFittedError" /\ ret = None)

C1_Witness ==
    /\ op = "inverse_transform"
    /\ ~Fitted(est)
    /\ ~arg.X.sparse
    /\ outcome = "NotFittedError"

\* C2 (as claimed): a sparse matrix is refused with one and the same error kind,
\* the "input is sparse, not supported" error, by every operation in every state.
C2_SparseAlwaysUnsupported ==
    (op # "none" /\ arg.X.sparse) => outcome = "NotImplementedError"

\* C3 (as claimed): when two_way_standardize returns, the loop body has run at
\* most max_iter times.
C3_LoopAtMostMaxIter ==
    op = "two_way_standardize" => n_iter <= arg.max_iter

\* C4: what transform returns for M is a fresh run of two_way_standardize on M
\* with the default parameters, and an estimator with the same options fitted on
\* any other matrix returns the same.
C4_TransformIgnoresFit ==
    (op = "transform" /\ outcome = "ok") =>
        /\ ret = two_way_standardize(arg.X, TRUE, TRUE, TRUE, DefaultMaxIter, DefaultTol).ret
        /\ \A B \in DenseInputs :
              transform(fit(Fresh(est), B).self, arg.X, arg.copy).ret = ret

C4_Witness ==
    /\ op = "transform"
    /\ outcome = "ok"
    /\ est.n_rows_seen_ # NRows(arg.X.data)
    /\ \E j \in 1..Len(est.col_mean_) : est.col_mean_[j] > 0
    /\ ret # arg.X.data

\* C5 (as claimed): transform scales to unit variance exactly when the estimator
\* was built with with_std; with_std=False centres only.
C5_TransformHonoursWithStd ==
    (op = "transform" /\ outcome = "ok") =>
        ret = two_way_standardize(arg.X, TRUE, est.with_std, TRUE,
                                  DefaultMaxIter, DefaultTol).ret

\* C6 (as claimed): a call that raises has not modified the caller's matrix.
C6_FailureLeavesInputIntact ==
    (op # "none" /\ outcome # "ok") => X = arg.X.data

C8_InverseAlwaysWarnsOnce ==
    (op = "inverse_transform" /\ Fitted(est)) => warns = 1

\* C8 (amended): on a fitted estimator inverse_transform warns exactly once for
\* every dense input, also when it then raises, and not at all for a sparse input.
C8_InverseWarnsOnceOnDense ==
    (op = "inverse_transform" /\ Fitted(est)) =>
        warns = (IF arg.X.sparse THEN 0 ELSE 1)

C8_Witness ==
    /\ op = "inverse_transform"
    /\ Fitted(est)
    /\ ~arg.X.sparse
    /\ outcome = "ValueError"
    /\ warns = 1

\* C9 (as claimed): with_mean is True whatever the constructor was given, and
\* inverse_transform adds the fitted row and column means back.
C9_AlwaysCentering ==
    (op = "inverse_transform" /\ outcome = "ok") =>
        /\ est.with_mean = TRUE
        /\ ret = inverse_transform([est EXCEPT !.with_mean = TRUE], arg.X, TRUE).ret

\* C10: only a successful fit changes the estimator, and a fitted estimator
\* stays fitted.
C10_OnlyFitChangesEstimator ==
    [][ /\ (~(op' = "fit" /\ outcome' = "ok")) => est' = est
        /\ Fitted(est) => Fitted(est') ]_vars

C10_Witness ==
    /\ op = "fit"
    /\ outcome # "ok"
    /\ Fitted(est)

====
